---- MODULE Spec2Model ----
(***************************************************************************)
(* Model of WhatsappInstance (src/src/whatsapp.ts): the per-instance       *)
(* unified task queue, the inbound-message and status tasks, the local     *)
(* `messages` table written by saveMessage / updateMessage, and the        *)
(* periodic syncMessagesWithServer sweep.                                  *)
(*                                                                         *)
(* The program runs on a single-threaded event loop.  One action of the    *)
(* model is one run-to-completion segment of code: from the resolution of  *)
(* one `await` up to the next one.  The outcome of an awaited external     *)
(* call (messaging client, local store, remote backend) is an input of the *)
(* action that resumes after it.                                           *)
(***************************************************************************)
EXTENDS Integers, Sequences, FiniteSets, TLC

(* ------------------------------ bounds -------------------------------- *)

\* number of enqueue calls (events) in a behaviour
MaxTasks == 3
\* number of enqueue calls in a behaviour of FairSpec
MaxLiveTasks == 2
\* number of enqueue calls in a behaviour of LiveSpec
MaxSyncTasks == 1

(* ------------------------------ inputs -------------------------------- *)

MsgIds == {"M1", "M2"}
\* scan order of the messages table (primary key order)
IdOrder == <<"M1", "M2">>
\* acknowledgement codes carried by the events of a behaviour
Acks == {1, 3}
Bodies == {"hi"}
Contact == "5511"
Sweepers == {1}

TaskIds == 1..MaxTasks

\* whatsapp.ts:197  the message types the filter of onReceiveMessage rejects
blockedTypes == {"e2e_notification", "notification_template", "call_log", "gp2"}

\* shapes of inbound messages: the properties read by the filter of
\* onReceiveMessage (blockedContact: the number of the chat is one of
\* this.blockedNumbers).  A recent chat message of a contact, and the same
\* message in a group chat.
PlainShape ==
    [isGroup |-> FALSE, fromNow |-> TRUE, isStatus |-> FALSE, type |-> "chat",
     blockedContact |-> FALSE]

Shapes == { PlainShape, [PlainShape EXCEPT !.isGroup = TRUE] }

\* the shapes of FilterSpec: one for each test of the filter as well
InboundShapes ==
    Shapes
    \cup { [PlainShape EXCEPT !.fromNow = FALSE],
           [PlainShape EXCEPT !.isStatus = TRUE],
           [PlainShape EXCEPT !.blockedContact = TRUE] }
    \cup { [PlainShape EXCEPT !.type = ty] : ty \in blockedTypes }

VARIABLES
    unifiedQueue,            \* whatsapp.ts:26  ids of the queued tasks
    processingUnifiedQueue,  \* whatsapp.ts:27
    current,                 \* the task the worker loop awaits (0: no loop is suspended)
    tasks,                   \* the task closures created so far and their position
    nextTask,                \* number of the next enqueue call
    messages,                \* the local `messages` table: ID -> row
    detached,                \* updateMessage calls issued without await (whatsapp.ts:225)
    sweeps,                  \* the running syncMessagesWithServer invocations
    started,                 \* history: tasks in the order the worker started them
    fwdAcked,                \* history: ids whose receive_message call succeeded
    statusAcked,             \* history: <<message id, status>> the remote backend acknowledged
    edits,                   \* whatsapp.ts:257-273  the onEditMessage call of each message id
    sends,                   \* whatsapp.ts:302-356  the sendText / sendFile call of each request
    requests                 \* part_000:39-559  the HTTP requests and their handlers

\* the state outside the queue, the table and the sweeps
outVars == <<edits, sends, requests>>

vars == <<unifiedQueue, processingUnifiedQueue, current, tasks, nextTask,
          messages, detached, sweeps, started, fwdAcked, statusAcked,
          edits, sends, requests>>

(* ------------------------- pure operators ----------------------------- *)

\* whatsapp.ts:243  ["PENDING","SENT","RECEIVED","READ","PLAYED"][ack] || "ERROR"
StatusNames == <<"PENDING", "SENT", "RECEIVED", "READ", "PLAYED">>

\* AckToStatus counting the names from one
AckToStatus_OneBased(ack) ==
    IF ack \in 1..Len(StatusNames) THEN StatusNames[ack] ELSE "ERROR"

AckToStatus(ack) ==
    IF ack \in 0..(Len(StatusNames) - 1) THEN StatusNames[ack + 1] ELSE "ERROR"

\* Eligible without the test of the contact
Eligible_NoContact(m) ==
    /\ ~m.isGroup
    /\ m.fromNow
    /\ ~m.isStatus
    /\ m.type \notin blockedTypes

\* whatsapp.ts:197-211  the filter in front of the persistence of an inbound
\* message: !chat.isGroup && fromNow && !message.isStatus && !isBlackListed
Eligible(m) ==
    /\ ~m.isGroup
    /\ m.fromNow
    /\ ~m.isStatus
    /\ ~(m.type \in blockedTypes \/ m.blockedContact)

\* no value: what `x || null` stores for an absent or empty field
\* (whatsapp.ts:463-473); the empty string stands for it
NoValue == ""

\* the canonical message messageParser yields for an inbound event; its
\* STATUS is the status of the acknowledgement code of the message.  The
\* events of a behaviour quote no earlier message.
ParsedMessage(id, ack, body) ==
    [ID |-> id, MENSAGEM |-> body, ID_REFERENCIA |-> NoValue,
     STATUS |-> AckToStatus(ack)]

\* the canonical message mapToParsedMessage yields for a row of the table: a
\* total mapping of the columns (whatsapp.ts:508)
mapToParsedMessage(r) ==
    [ID |-> r.ID, MENSAGEM |-> r.MENSAGEM, ID_REFERENCIA |-> r.ID_REFERENCIA,
     STATUS |-> r.STATUS]

\* saveMessage with MENSAGEM missing from the list after ON DUPLICATE KEY UPDATE
saveMessage_KeepsBody(tbl, message, from, ok) ==
    IF ~ok THEN tbl
    ELSE IF message.ID \in DOMAIN tbl
         THEN [tbl EXCEPT ![message.ID] =
                  [@ EXCEPT !.STATUS = message.STATUS,
                            !.SYNC_MESSAGE = FALSE,
                            !.SYNC_STATUS = FALSE]]
         ELSE (message.ID :> [ID |-> message.ID,
                              MENSAGEM |-> message.MENSAGEM,
                              ID_REFERENCIA |-> message.ID_REFERENCIA,
                              STATUS |-> message.STATUS,
                              SYNC_MESSAGE |-> FALSE,
                              SYNC_STATUS |-> FALSE,
                              FROM |-> from]) @@ tbl

\* saveMessage passing the flags of the message for the literals of 474-475
saveMessage_CallerFlags(tbl, message, from, ok) ==
    IF ~ok THEN tbl
    ELSE IF message.ID \in DOMAIN tbl
         THEN [tbl EXCEPT ![message.ID] =
                  [@ EXCEPT !.MENSAGEM = message.MENSAGEM,
                            !.STATUS = message.STATUS,
                            !.SYNC_MESSAGE = message.SYNC_MESSAGE,
                            !.SYNC_STATUS = message.SYNC_STATUS]]
         ELSE (message.ID :> [ID |-> message.ID,
                              MENSAGEM |-> message.MENSAGEM,
                              ID_REFERENCIA |-> message.ID_REFERENCIA,
                              STATUS |-> message.STATUS,
                              SYNC_MESSAGE |-> message.SYNC_MESSAGE,
                              SYNC_STATUS |-> message.SYNC_STATUS,
                              FROM |-> from]) @@ tbl

\* whatsapp.ts:424-490  INSERT ... ON DUPLICATE KEY UPDATE; a failed statement
\* is caught and logged inside saveMessage and leaves the table as it was.
\* The table is keyed by ID.  MENSAGEM stands for the columns that are both
\* inserted and listed after ON DUPLICATE KEY UPDATE with VALUES(column)
\* (447-456); ID_REFERENCIA is inserted (464) and is not in that list; the two
\* flags are the literals of 474-475 in both cases; FROM is inserted only.
saveMessage(tbl, message, from, ok) ==
    IF ~ok THEN tbl
    ELSE IF message.ID \in DOMAIN tbl
         THEN [tbl EXCEPT ![message.ID] =
                  [@ EXCEPT !.MENSAGEM = message.MENSAGEM,
                            !.STATUS = message.STATUS,
                            !.SYNC_MESSAGE = FALSE,
                            !.SYNC_STATUS = FALSE]]
         ELSE (message.ID :> [ID |-> message.ID,
                              MENSAGEM |-> message.MENSAGEM,
                              ID_REFERENCIA |-> message.ID_REFERENCIA,
                              STATUS |-> message.STATUS,
                              SYNC_MESSAGE |-> FALSE,
                              SYNC_STATUS |-> FALSE,
                              FROM |-> from]) @@ tbl

\* updateMessage building the flag parameters with `x || null`, as it does
\* for STATUS: a flag passed as false counts as omitted
updateMessage_Truthy(tbl, id, f, ok) ==
    IF ~ok \/ id \notin DOMAIN tbl THEN tbl
    ELSE [tbl EXCEPT ![id] =
             [@ EXCEPT !.STATUS = IF "STATUS" \in DOMAIN f /\ f.STATUS # NoValue
                                  THEN f.STATUS ELSE @,
                       !.SYNC_STATUS = IF "SYNC_STATUS" \in DOMAIN f /\ f.SYNC_STATUS
                                       THEN TRUE ELSE @,
                       !.SYNC_MESSAGE = IF "SYNC_MESSAGE" \in DOMAIN f /\ f.SYNC_MESSAGE
                                        THEN TRUE ELSE @]]

\* updateMessage writing a row for an identifier that has none
updateMessage_Upsert(tbl, id, f, ok) ==
    IF ~ok THEN tbl
    ELSE LET old == IF id \in DOMAIN tbl THEN tbl[id]
                    ELSE [ID |-> id, MENSAGEM |-> NoValue, ID_REFERENCIA |-> NoValue,
                          STATUS |-> NoValue, SYNC_MESSAGE |-> FALSE,
                          SYNC_STATUS |-> FALSE, FROM |-> NoValue]
         IN (id :> [old EXCEPT
                       !.STATUS = IF "STATUS" \in DOMAIN f /\ f.STATUS # NoValue
                                  THEN f.STATUS ELSE @,
                       !.SYNC_STATUS = IF "SYNC_STATUS" \in DOMAIN f
                                       THEN f.SYNC_STATUS ELSE @,
                       !.SYNC_MESSAGE = IF "SYNC_MESSAGE" \in DOMAIN f
                                        THEN f.SYNC_MESSAGE ELSE @]) @@ tbl

\* whatsapp.ts:535-555  UPDATE ... SET col = COALESCE(?, col) WHERE ID = ?
\* f is the object of optional fields; an omitted field is absent from f.
\* A failed statement is caught and logged inside updateMessage.
updateMessage(tbl, id, f, ok) ==
    IF ~ok \/ id \notin DOMAIN tbl THEN tbl
    ELSE [tbl EXCEPT ![id] =
             [@ EXCEPT !.STATUS = IF "STATUS" \in DOMAIN f /\ f.STATUS # NoValue
                                  THEN f.STATUS ELSE @,
                       !.SYNC_STATUS = IF "SYNC_STATUS" \in DOMAIN f
                                       THEN f.SYNC_STATUS ELSE @,
                       !.SYNC_MESSAGE = IF "SYNC_MESSAGE" \in DOMAIN f
                                        THEN f.SYNC_MESSAGE ELSE @]]

\* SelectFrom without its WHERE clause on the flags
RECURSIVE SelectFrom_All(_, _)
SelectFrom_All(tbl, i) ==
    IF i > Len(IdOrder) THEN <<>>
    ELSE LET id == IdOrder[i] IN
         IF id \in DOMAIN tbl
         THEN <<tbl[id]>> \o SelectFrom_All(tbl, i + 1)
         ELSE SelectFrom_All(tbl, i + 1)

\* SelectFrom with AND for the OR of the WHERE clause
RECURSIVE SelectFrom_And(_, _)
SelectFrom_And(tbl, i) ==
    IF i > Len(IdOrder) THEN <<>>
    ELSE LET id == IdOrder[i] IN
         IF id \in DOMAIN tbl /\ (~tbl[id].SYNC_MESSAGE /\ ~tbl[id].SYNC_STATUS)
         THEN <<tbl[id]>> \o SelectFrom_And(tbl, i + 1)
         ELSE SelectFrom_And(tbl, i + 1)

\* whatsapp.ts:496-500  SELECT * FROM messages WHERE (SYNC_MESSAGE = 0 OR SYNC_STATUS = 0)
RECURSIVE SelectFrom(_, _)
SelectFrom(tbl, i) ==
    IF i > Len(IdOrder) THEN <<>>
    ELSE LET id == IdOrder[i] IN
         IF id \in DOMAIN tbl /\ (~tbl[id].SYNC_MESSAGE \/ ~tbl[id].SYNC_STATUS)
         THEN <<tbl[id]>> \o SelectFrom(tbl, i + 1)
         ELSE SelectFrom(tbl, i + 1)

SelectUnsynced(tbl) == SelectFrom(tbl, 1)

(* ---------------------------- the queue ------------------------------- *)

\* A task closure: the event it was created for and the await it stands at.
\* The fields of the event are inputs; the model draws each one in the step
\* that settles the call reading it (shape: 198-205, ack and body of an
\* inbound message: messageParser at 212, ack of a status event: 243), and
\* no step in between depends on it.
NoTask == [kind |-> "none", id |-> "M1", ack |-> 1, body |-> "hi",
           pc |-> "none", postOk |-> FALSE]

\* the first await of a task body: what the synchronous call `task()` reaches
\*   message task: message.getChat()            whatsapp.ts:199
\*   status task:  axios.put(update_message)    whatsapp.ts:245
\*   any other task passed to the public enqueue methods: its first await
StartPc(kind) ==
    CASE kind = "message" -> "getChat"
      [] kind = "status"  -> "put"
      [] OTHER            -> "running"

Active(t) == tasks[t].pc \notin {"none", "queued", "done", "failed"}

\* DrainLoop leaving the flag set when it finds the list empty
DrainLoop_KeepsFlag(q, ts) ==
    IF Len(q) > 0
    THEN LET h == Head(q) IN
         /\ unifiedQueue' = Tail(q)
         /\ tasks' = [ts EXCEPT ![h].pc = StartPc(ts[h].kind)]
         /\ current' = h
         /\ started' = Append(started, h)
         /\ processingUnifiedQueue' = TRUE
    ELSE /\ processingUnifiedQueue' = TRUE
         /\ current' = 0
         /\ unifiedQueue' = q
         /\ tasks' = ts
         /\ UNCHANGED started

\* DrainLoop taking the newest task instead of the oldest (pop for shift)
DrainLoop_Lifo(q, ts) ==
    IF Len(q) > 0
    THEN LET h == q[Len(q)] IN
         /\ unifiedQueue' = SubSeq(q, 1, Len(q) - 1)
         /\ tasks' = [ts EXCEPT ![h].pc = StartPc(ts[h].kind)]
         /\ current' = h
         /\ started' = Append(started, h)
         /\ processingUnifiedQueue' = TRUE
    ELSE /\ processingUnifiedQueue' = FALSE
         /\ current' = 0
         /\ unifiedQueue' = q
         /\ tasks' = ts
         /\ UNCHANGED started

\* whatsapp.ts:86-94  the loop of processUnifiedQueue from its `while` test on,
\* entered with queue q and task table ts: shift the head and call it (the
\* call runs the task up to its first await), or clear the flag
DrainLoop(q, ts) ==
    IF Len(q) > 0
    THEN LET h == Head(q) IN
         /\ unifiedQueue' = Tail(q)
         /\ tasks' = [ts EXCEPT ![h].pc = StartPc(ts[h].kind)]
         /\ current' = h
         /\ started' = Append(started, h)
         /\ processingUnifiedQueue' = TRUE
    ELSE /\ processingUnifiedQueue' = FALSE
         /\ current' = 0
         /\ unifiedQueue' = q
         /\ tasks' = ts
         /\ UNCHANGED started

\* whatsapp.ts:81-95  processUnifiedQueue as called from enqueueProcessing
processUnifiedQueue(q, ts) ==
    IF processingUnifiedQueue
    THEN /\ unifiedQueue' = q
         /\ tasks' = ts
         /\ UNCHANGED <<processingUnifiedQueue, current, started>>
    ELSE DrainLoop(q, ts)

\* whatsapp.ts:76-79  enqueueProcessing: push, then processUnifiedQueue
enqueueProcessing(task) ==
    /\ nextTask <= MaxTasks
    /\ nextTask' = nextTask + 1
    /\ processUnifiedQueue(Append(unifiedQueue, nextTask),
                           [tasks EXCEPT ![nextTask] = task])

\* whatsapp.ts:90  `await task()` resumes after the task's promise fulfilled:
\* task t is over (its closure is dropped) and the loop goes on with its
\* `while` test.  The continuation of the loop is a microtask of the segment
\* that ends the task, so no other handler runs between the two.
TaskReturns(t) ==
    DrainLoop(unifiedQueue, [tasks EXCEPT ![t] = [NoTask EXCEPT !.pc = "done"]])

\* TaskThrows with a `finally` that clears the flag and leaves the list
TaskThrows_ClearsFlag(t) ==
    /\ tasks' = [tasks EXCEPT ![t] = [NoTask EXCEPT !.pc = "failed"]]
    /\ current' = 0
    /\ processingUnifiedQueue' = FALSE
    /\ UNCHANGED <<unifiedQueue, started>>

\* whatsapp.ts:90  `await task()` rethrows the rejection of the task's promise;
\* processUnifiedQueue has no try/catch, so line 94 is never reached
TaskThrows(t) ==
    /\ tasks' = [tasks EXCEPT ![t] = [NoTask EXCEPT !.pc = "failed"]]
    /\ current' = 0
    /\ UNCHANGED <<unifiedQueue, processingUnifiedQueue, started>>

(* ------------------------------ events -------------------------------- *)

\* whatsapp.ts:193-238  the "message" event: the task is created and enqueued
onReceiveMessage(id) ==
    /\ enqueueProcessing([NoTask EXCEPT !.kind = "message", !.id = id, !.pc = "queued"])
    /\ UNCHANGED <<messages, detached, sweeps, fwdAcked, statusAcked>>
    /\ UNCHANGED outVars

\* whatsapp.ts:240-255  the "message_ack" event
onReceiveMessageStatus(id) ==
    /\ enqueueProcessing([NoTask EXCEPT !.kind = "status", !.id = id, !.pc = "queued"])
    /\ UNCHANGED <<messages, detached, sweeps, fwdAcked, statusAcked>>
    /\ UNCHANGED outVars

\* whatsapp.ts:97-99  the public enqueueMessageProcessing called with a task
\* that is not one of the two above
enqueueMessageProcessing ==
    /\ enqueueProcessing([NoTask EXCEPT !.kind = "task", !.pc = "queued"])
    /\ UNCHANGED <<messages, detached, sweeps, fwdAcked, statusAcked>>
    /\ UNCHANGED outVars

(* ------------------------- the queued tasks --------------------------- *)

Awaiting(t, pc) == current = t /\ tasks[t].pc = pc

\* a task passed to the public enqueue method settles: it returns or throws
TaskSettles(t, throws) ==
    /\ Awaiting(t, "running")
    /\ IF throws THEN TaskThrows(t) ELSE TaskReturns(t)
    /\ UNCHANGED <<nextTask, messages, detached, sweeps, fwdAcked, statusAcked>>
    /\ UNCHANGED outVars

\* whatsapp.ts:199-211  message.getChat() and the runAutoMessage calls settle
\* (ok: none of them rejects), the filter of 211 is applied to the message.
\* A rejection goes to the catch of the task (230-236), which logs and returns.
MsgGetChat(t, shape, ok) ==
    /\ Awaiting(t, "getChat")
    /\ IF ok /\ Eligible(shape)
       THEN /\ tasks' = [tasks EXCEPT ![t].pc = "parser"]
            /\ UNCHANGED <<unifiedQueue, processingUnifiedQueue, current, started>>
       ELSE TaskReturns(t)
    /\ UNCHANGED <<nextTask, messages, detached, sweeps, fwdAcked, statusAcked>>
    /\ UNCHANGED outVars

\* MsgParser without the test of 215-217: the task goes on to saveMessage
MsgParser_NoCheck(t, parsed, ack, body) ==
    /\ Awaiting(t, "parser")
    /\ tasks' = [tasks EXCEPT ![t].pc = "save", ![t].ack = ack, ![t].body = body]
    /\ UNCHANGED <<unifiedQueue, processingUnifiedQueue, current, started>>
    /\ UNCHANGED <<nextTask, messages, detached, sweeps, fwdAcked, statusAcked>>
    /\ UNCHANGED outVars

\* whatsapp.ts:212-217  messageParser settles; no message: throw, caught at 230
MsgParser(t, parsed, ack, body) ==
    /\ Awaiting(t, "parser")
    /\ IF parsed
       THEN /\ tasks' = [tasks EXCEPT ![t].pc = "save", ![t].ack = ack, ![t].body = body]
            /\ UNCHANGED <<unifiedQueue, processingUnifiedQueue, current, started>>
       ELSE TaskReturns(t)
    /\ UNCHANGED <<nextTask, messages, detached, sweeps, fwdAcked, statusAcked>>
    /\ UNCHANGED outVars

\* whatsapp.ts:218  await this.saveMessage(...): never rejects; then the post
\* of line 219 is issued
MsgSave(t, ok) ==
    /\ Awaiting(t, "save")
    /\ messages' = saveMessage(messages,
                       ParsedMessage(tasks[t].id, tasks[t].ack, tasks[t].body),
                       Contact, ok)
    /\ tasks' = [tasks EXCEPT ![t].pc = "post"]
    /\ UNCHANGED <<unifiedQueue, processingUnifiedQueue, current, started,
                   nextTask, detached, sweeps, fwdAcked, statusAcked>>
    /\ UNCHANGED outVars

\* whatsapp.ts:219-222  the receive_message call settles; .catch(() => null)
\* turns a failure into a normal result; then the SELECT of line 222 is issued
MsgPost(t, ok) ==
    /\ Awaiting(t, "post")
    /\ LET parsedMessage == ParsedMessage(tasks[t].id, tasks[t].ack, tasks[t].body) IN
       /\ fwdAcked' = IF ok THEN fwdAcked \cup {parsedMessage.ID} ELSE fwdAcked
       /\ statusAcked' = IF ok
                         THEN statusAcked \cup {<<parsedMessage.ID, parsedMessage.STATUS>>}
                         ELSE statusAcked
    /\ tasks' = [tasks EXCEPT ![t].pc = "select", ![t].postOk = ok]
    /\ UNCHANGED <<unifiedQueue, processingUnifiedQueue, current, started,
                   nextTask, messages, detached, sweeps>>
    /\ UNCHANGED outVars

\* whatsapp.ts:222-229  the SELECT on w_mensagens (the pool of the instance,
\* a table this program never writes) settles with a row, with no row, or
\* rejects (caught at 230).  With a row, updateMessage is called and NOT
\* awaited: the task returns while that update is still to run.
MsgSelect(t, res) ==
    /\ Awaiting(t, "select")
    /\ detached' = IF res = "row"
                   THEN [detached EXCEPT ![tasks[t].id] = @ + 1]
                   ELSE detached
    /\ TaskReturns(t)
    /\ UNCHANGED <<nextTask, messages, sweeps, fwdAcked, statusAcked>>
    /\ UNCHANGED outVars

\* whatsapp.ts:225 + 535-555  the statement of a not-awaited updateMessage runs
DetachedUpdate(id, ok) ==
    /\ detached[id] > 0
    /\ detached' = [detached EXCEPT ![id] = @ - 1]
    /\ messages' = updateMessage(messages, id,
                                 [SYNC_MESSAGE |-> TRUE, SYNC_STATUS |-> TRUE], ok)
    /\ UNCHANGED <<unifiedQueue, processingUnifiedQueue, current, tasks, nextTask,
                   sweeps, started, fwdAcked, statusAcked>>
    /\ UNCHANGED outVars

\* StatusPut without the .catch of 246 and with a catch block that rethrows
StatusPut_Throws(t, ack, ok) ==
    /\ Awaiting(t, "put")
    /\ statusAcked' = IF ok
                      THEN statusAcked \cup {<<tasks[t].id, AckToStatus(ack)>>}
                      ELSE statusAcked
    /\ IF ok
       THEN /\ tasks' = [tasks EXCEPT ![t].pc = "update", ![t].ack = ack]
            /\ UNCHANGED <<unifiedQueue, processingUnifiedQueue, current, started>>
       ELSE TaskThrows(t)
    /\ UNCHANGED <<nextTask, messages, detached, sweeps, fwdAcked>>
    /\ UNCHANGED outVars

\* whatsapp.ts:245-247  the update_message call settles; .catch(() => null)
\* turns a failure into a normal result; then updateMessage is issued
StatusPut(t, ack, ok) ==
    /\ Awaiting(t, "put")
    /\ statusAcked' = IF ok
                      THEN statusAcked \cup {<<tasks[t].id, AckToStatus(ack)>>}
                      ELSE statusAcked
    /\ tasks' = [tasks EXCEPT ![t].pc = "update", ![t].ack = ack]
    /\ UNCHANGED <<unifiedQueue, processingUnifiedQueue, current, started,
                   nextTask, messages, detached, sweeps, fwdAcked>>
    /\ UNCHANGED outVars

\* whatsapp.ts:247-248  await this.updateMessage(id, { SYNC_STATUS: true })
\* settles (it never rejects, so the catch of 250-253 is not reached)
StatusUpdate(t, ok) ==
    /\ Awaiting(t, "update")
    /\ messages' = updateMessage(messages, tasks[t].id, [SYNC_STATUS |-> TRUE], ok)
    /\ TaskReturns(t)
    /\ UNCHANGED <<nextTask, detached, sweeps, fwdAcked, statusAcked>>
    /\ UNCHANGED outVars

(* ------------------------------ the sweep ----------------------------- *)

IdleSweep == [pc |-> "idle", rows |-> <<>>, fwd |-> 0, stat |-> 0]

\* whatsapp.ts:507  first test of the loop body, on the values read by the SELECT
MessageBranch(r) == ~r.SYNC_MESSAGE

\* StatusBranch without its SYNC_MESSAGE conjunct
StatusBranch_Loose(r) == ~r.SYNC_STATUS

\* whatsapp.ts:516  second test of the loop body, on the same values
StatusBranch(r) == r.SYNC_MESSAGE /\ ~r.SYNC_STATUS

\* whatsapp.ts:502-520  the loop stands in front of the rows rs: it issues the
\* first remote call the head row asks for; after the last row the sweep ends
\* (528-529).  fwd and stat count the receive_message and update_message
\* calls issued for the head row.
RECURSIVE SweepAt(_)
SweepAt(rs) ==
    IF rs = <<>> THEN IdleSweep
    ELSE IF MessageBranch(Head(rs))
         THEN [pc |-> "post", rows |-> rs, fwd |-> 1, stat |-> 0]
         ELSE IF StatusBranch(Head(rs))
              THEN [pc |-> "put", rows |-> rs, fwd |-> 0, stat |-> 1]
              ELSE SweepAt(Tail(rs))

\* RowFailed leaving the loop: the rejection ends the sweep
RowFailed_Aborts(sw) == IdleSweep

\* whatsapp.ts:521-526  a call of the head row was rejected: the catch inside
\* the loop logs the failure and the loop goes on with the next row
RowFailed(sw) == SweepAt(Tail(sw.rows))

\* whatsapp.ts:513-516  the first block of the loop body is over for the head row
AfterMessageBranch(sw) ==
    IF StatusBranch(Head(sw.rows))
    THEN [sw EXCEPT !.pc = "put", !.stat = @ + 1]
    ELSE SweepAt(Tail(sw.rows))

\* whatsapp.ts:66 + 492-502  the cron tick calls syncMessagesWithServer; the
\* connection and the SELECT settle.  A rejection is caught at 530.
SweepStart(s, ok) ==
    /\ sweeps[s].pc = "idle"
    /\ sweeps' = [sweeps EXCEPT ![s] = IF ok THEN SweepAt(SelectUnsynced(messages))
                                      ELSE IdleSweep]
    /\ UNCHANGED <<unifiedQueue, processingUnifiedQueue, current, tasks, nextTask,
                   messages, detached, started, fwdAcked, statusAcked>>
    /\ UNCHANGED outVars

\* whatsapp.ts:511-512  the receive_message call of the head row settles;
\* a failure skips .then and is caught at 521
SweepPost(s, ok) ==
    /\ sweeps[s].pc = "post"
    /\ LET parsedMessage == mapToParsedMessage(Head(sweeps[s].rows)) IN
       /\ fwdAcked' = IF ok THEN fwdAcked \cup {parsedMessage.ID} ELSE fwdAcked
       /\ statusAcked' = IF ok
                         THEN statusAcked \cup {<<parsedMessage.ID, parsedMessage.STATUS>>}
                         ELSE statusAcked
    /\ sweeps' = [sweeps EXCEPT ![s] = IF ok THEN [@ EXCEPT !.pc = "postUpdate"]
                                      ELSE RowFailed(@)]
    /\ UNCHANGED <<unifiedQueue, processingUnifiedQueue, current, tasks, nextTask,
                   messages, detached, started>>
    /\ UNCHANGED outVars

\* whatsapp.ts:512  .then(() => this.updateMessage(ID, both flags)) settles
SweepPostUpdate(s, ok) ==
    /\ sweeps[s].pc = "postUpdate"
    /\ messages' = updateMessage(messages, Head(sweeps[s].rows).ID,
                                 [SYNC_MESSAGE |-> TRUE, SYNC_STATUS |-> TRUE], ok)
    /\ sweeps' = [sweeps EXCEPT ![s] = AfterMessageBranch(@)]
    /\ UNCHANGED <<unifiedQueue, processingUnifiedQueue, current, tasks, nextTask,
                   detached, started, fwdAcked, statusAcked>>
    /\ UNCHANGED outVars

\* whatsapp.ts:518  the message the update_message call of a sweep names in
\* its URL: `${this.requestURL}/update_message/${message.FROM}`
UpdateMessageTarget(r) == r.FROM

\* whatsapp.ts:518-519  the update_message call of the head row settles
SweepPut(s, ok) ==
    /\ sweeps[s].pc = "put"
    /\ statusAcked' = IF ok /\ UpdateMessageTarget(Head(sweeps[s].rows)) \in MsgIds
                      THEN statusAcked \cup {<<UpdateMessageTarget(Head(sweeps[s].rows)),
                                               Head(sweeps[s].rows).STATUS>>}
                      ELSE statusAcked
    /\ sweeps' = [sweeps EXCEPT ![s] = IF ok THEN [@ EXCEPT !.pc = "putUpdate"]
                                      ELSE RowFailed(@)]
    /\ UNCHANGED <<unifiedQueue, processingUnifiedQueue, current, tasks, nextTask,
                   messages, detached, started, fwdAcked>>
    /\ UNCHANGED outVars

\* whatsapp.ts:519  .then(() => this.updateMessage(ID, { SYNC_STATUS: true })) settles
SweepPutUpdate(s, ok) ==
    /\ sweeps[s].pc = "putUpdate"
    /\ messages' = updateMessage(messages, Head(sweeps[s].rows).ID,
                                 [SYNC_STATUS |-> TRUE], ok)
    /\ sweeps' = [sweeps EXCEPT ![s] = SweepAt(Tail(@.rows))]
    /\ UNCHANGED <<unifiedQueue, processingUnifiedQueue, current, tasks, nextTask,
                   detached, started, fwdAcked, statusAcked>>
    /\ UNCHANGED outVars

(* ------------------------- the edit events ---------------------------- *)

\* the queue, the table, the sweeps and their histories
coreVars == <<unifiedQueue, processingUnifiedQueue, current, tasks, nextTask,
              messages, detached, sweeps, started, fwdAcked, statusAcked>>

\* whatsapp.ts:154 + 257-269  a message_edit event: the handler builds the
\* changes and issues the POST update_message itself, in the step of the event
onEditMessage(id) ==
    /\ id \notin DOMAIN edits
    /\ edits' = edits @@ (id :> "posting")
    /\ UNCHANGED <<sends, requests>>
    /\ UNCHANGED coreVars

\* whatsapp.ts:269-272  the POST of an edit settles; both outcomes are logged
EditSettles(id, ok) ==
    /\ id \in DOMAIN edits
    /\ edits[id] = "posting"
    /\ edits' = [edits EXCEPT ![id] = IF ok THEN "done" ELSE "failed"]
    /\ UNCHANGED <<sends, requests>>
    /\ UNCHANGED coreVars

(* ------------------------ the outbound sends -------------------------- *)

\* number of HTTP requests in a behaviour
MaxRequests == 2
\* the requests are numbered as they arrive
ReqIds == 1..MaxRequests

\* identifiers the messaging client gives to sent messages
SentIds == {"S1"}

\* whatsapp.ts:302-305, 329-339  the call a send awaits first: sendText asks
\* for the number id, sendFile converts an audio file and sends any other
StartSend(kind) ==
    [op |-> IF kind = "text" THEN "sendText" ELSE "sendFile",
     pc |-> CASE kind = "text" -> "getNumberId"
              [] kind = "audio" -> "formatToOpusAudio"
              [] OTHER -> "sendMessage",
     sent |-> FALSE,
     result |-> NoValue]

\* whatsapp.ts:318, 321-325, 347, 351-355 and part_000:120, 137, 141
\* sendText / sendFile return the canonical message, or nothing after a
\* failure (the catch logs and falls off the end); sendMessage of the router,
\* which awaits the send, answers 201 with what it got; a mass send
\* (part_000:455-470, 490-505) goes on to report what it got
SendReturns(r, result) ==
    /\ sends' = [sends EXCEPT ![r].pc = "returned", ![r].result = result]
    /\ requests' = IF requests[r].route = "mass-messages"
                   THEN [requests EXCEPT ![r].chain = "report",
                                         ![r].failed = IF sends[r].sent
                                                       THEN @
                                                       ELSE @ \cup {"send"}]
                   ELSE [requests EXCEPT ![r].pc = "responded", ![r].status = 201]

\* whatsapp.ts:305-308  getNumberId settles; no chat id or a throw: no send
SendGetNumberId(r, ok) ==
    /\ r \in DOMAIN sends
    /\ sends[r].pc = "getNumberId"
    /\ IF ok
       THEN /\ sends' = [sends EXCEPT ![r].pc = "sendMessage"]
            /\ UNCHANGED requests
       ELSE SendReturns(r, NoValue)
    /\ UNCHANGED edits
    /\ UNCHANGED coreVars

\* whatsapp.ts:335-337  the conversion of an audio file settles
SendFormatAudio(r, ok) ==
    /\ r \in DOMAIN sends
    /\ sends[r].pc = "formatToOpusAudio"
    /\ IF ok
       THEN /\ sends' = [sends EXCEPT ![r].pc = "sendMessage"]
            /\ UNCHANGED requests
       ELSE SendReturns(r, NoValue)
    /\ UNCHANGED edits
    /\ UNCHANGED coreVars

\* whatsapp.ts:309, 341  client.sendMessage settles
SendMessage(r, ok) ==
    /\ r \in DOMAIN sends
    /\ sends[r].pc = "sendMessage"
    /\ IF ok
       THEN /\ sends' = [sends EXCEPT ![r].pc = "messageParser", ![r].sent = TRUE]
            /\ UNCHANGED requests
       ELSE SendReturns(r, NoValue)
    /\ UNCHANGED edits
    /\ UNCHANGED coreVars

\* whatsapp.ts:312-318, 343-349  messageParser settles with the canonical
\* message of the sent message (result: its ID) or with none, and the send
\* returns it; the table is not written
SendParser(r, result) ==
    /\ r \in DOMAIN sends
    /\ sends[r].pc = "messageParser"
    /\ SendReturns(r, result)
    /\ UNCHANGED edits
    /\ UNCHANGED coreVars

(* --------------------------- the HTTP routes -------------------------- *)

\* names of the running instances, and the values of the :from parameter
Instances == {"wa1"}
Froms == Instances \cup {"wa9"}

\* instances.find: the instance of that name, or none
InstancesFind(from) == IF from \in Instances THEN from ELSE NoValue

\* what a request of the messages route carries: a text, an uploaded file, an
\* uploaded audio file (isAudio = "true"), or the name of a stored file
SendKinds == {"text", "file", "audio", "filename"}

\* A request and, for a mass send, its chain of sends: the contacts of the
\* request, the contacts still in the array (part_000:475, 510 shift it), the
\* kind of send, whether the request has a text, the await the chain stands
\* at, and as history the contacts a send was started for, the number of
\* reports made and the calls that failed.
Request(route, from, pc, status, invoked) ==
    [route |-> route, from |-> from, pc |-> pc, status |-> status,
     invoked |-> invoked, chain |-> "none", list |-> <<>>, contacts |-> <<>>,
     kind |-> NoValue, text |-> FALSE, tried |-> <<>>, reported |-> 0,
     failed |-> {}]

\* the shape of five handlers: find the instance; none: 404; else await one
\* operation of the instance
AwaitInstance(r, route, from) ==
    /\ r = Len(requests) + 1
    /\ requests' = Append(requests,
                       IF InstancesFind(from) = NoValue
                       THEN Request(route, from, "responded", 404, FALSE)
                       ELSE Request(route, from, "awaiting", 0, TRUE))
    /\ UNCHANGED <<edits, sends>>
    /\ UNCHANGED coreVars

\* part_000:39-48
loadMessages(r, from) == AwaitInstance(r, "load-messages", from)

\* part_000:55-63
loadAvatars(r, from) == AwaitInstance(r, "load-avatars", from)

\* part_000:70-78
loadGroups(r, from) == AwaitInstance(r, "groups", from)

\* part_000:152-162
getProfilePic(r, from) == AwaitInstance(r, "avatars", from)

\* part_000:542-552
validateNumber(r, from) == AwaitInstance(r, "validate-number", from)

\* part_000:48-52, 63-67, 78-83, 162-167, 552-558  the awaited operation
\* settles: 200 with its result, 500 when it threw
OperationSettles(r, ok) ==
    /\ r \in DOMAIN requests
    /\ requests[r].pc = "awaiting"
    /\ requests' = [requests EXCEPT ![r].pc = "responded",
                                    ![r].status = IF ok THEN 200 ELSE 500]
    /\ UNCHANGED <<edits, sends>>
    /\ UNCHANGED coreVars

\* loadContacts without the test of the instance
loadContacts_NoCheck(r, from) ==
    /\ r = Len(requests) + 1
    /\ requests' = Append(requests,
                       Request("load-contacts", from, "responded", 200, TRUE))
    /\ UNCHANGED <<edits, sends>>
    /\ UNCHANGED coreVars

\* part_000:86-100  loadContacts(instance) is called and not awaited
loadContacts(r, from) ==
    /\ r = Len(requests) + 1
    /\ requests' = Append(requests,
                       IF InstancesFind(from) = NoValue
                       THEN Request("load-contacts", from, "responded", 404, FALSE)
                       ELSE Request("load-contacts", from, "responded", 200, TRUE))
    /\ UNCHANGED <<edits, sends>>
    /\ UNCHANGED coreVars

\* part_000:102-149  no instance: 404.  A stored file that cannot be read
\* throws into the catch, which logs and sends no response.  Otherwise the
\* handler awaits sendFile or sendText.
sendMessage(r, from, kind, readOk) ==
    /\ r = Len(requests) + 1
    /\ IF InstancesFind(from) = NoValue
       THEN /\ requests' = Append(requests,
                               Request("messages", from, "responded", 404, FALSE))
            /\ UNCHANGED sends
       ELSE IF kind = "filename" /\ ~readOk
       THEN /\ requests' = Append(requests,
                               Request("messages", from, "unanswered", 0, FALSE))
            /\ UNCHANGED sends
       ELSE /\ requests' = Append(requests,
                               Request("messages", from, "sending", 0, TRUE))
            /\ sends' = sends @@ (r :> StartSend(kind))
    /\ UNCHANGED edits
    /\ UNCHANGED coreVars

\* the contacts of a mass send (contacts.split(" ") is never empty): the
\* numbers of the body in the order of the body
ContactLists == {<<"c1">>, <<"c2", "c1">>, <<"c1", "c2", "c3">>}

\* part_000:520-538  the values of mode, and what the request carries: a text
\* only, an uploaded file, or the name of a stored file
Modes == {"0", "1", "2"}
MassKinds == {"text", "file", "filename"}

\* part_000:455-463, 490-498, 520-538  the send of the chain: mode 0 sends the
\* uploaded file if there is one, mode 1 the stored file if one is named
MassSend(mode, kind) ==
    IF (mode = "0" /\ kind = "file") \/ (mode = "1" /\ kind = "filename")
    THEN "file"
    ELSE "text"

\* part_000:415-427, 520-538  no instance: 404; else 200 at once, and then,
\* for mode 0 or 1, the first call of sendMMType1 / sendMMType2, which runs
\* up to its await of getContactVars (450-451, 487-488).  Another mode starts
\* nothing, and a stored file that cannot be read throws out of the handler.
sendMassMessages(r, from, list, mode, kind, text, readOk) ==
    /\ r = Len(requests) + 1
    /\ requests' = Append(requests,
                       IF InstancesFind(from) = NoValue
                       THEN Request("mass-messages", from, "responded", 404, FALSE)
                       ELSE IF mode = "2" \/ (mode = "1" /\ kind = "filename" /\ ~readOk)
                       THEN Request("mass-messages", from, "responded", 200, FALSE)
                       ELSE [Request("mass-messages", from, "responded", 200, TRUE)
                                EXCEPT !.chain = "getContactVars",
                                       !.list = list,
                                       !.contacts = list,
                                       !.kind = MassSend(mode, kind),
                                       !.text = text])
    /\ UNCHANGED <<edits, sends>>
    /\ UNCHANGED coreVars

\* part_000:450-463, 487-498  getContactVars settles.  It rejects when the
\* query fails or finds no row for the number (whatsapp.ts:403-414): the
\* catch of 480-482 / 515-517 logs and the chain ends.  Otherwise
\* replaceVars(text, contactVars) runs, which throws on a request with no
\* text (429-446), and sendFile or sendText is called for contacts[0].
MassContactVars(r, ok) ==
    /\ r \in DOMAIN requests
    /\ requests[r].chain = "getContactVars"
    /\ IF ~ok
       THEN /\ requests' = [requests EXCEPT ![r].chain = "stopped",
                                            ![r].failed = @ \cup {"lookup"}]
            /\ UNCHANGED sends
       ELSE IF ~requests[r].text
       THEN /\ requests' = [requests EXCEPT ![r].chain = "stopped"]
            /\ UNCHANGED sends
       ELSE /\ requests' = [requests EXCEPT
                               ![r].chain = "sending",
                               ![r].tried = Append(@, Head(requests[r].contacts))]
            /\ sends' = (r :> StartSend(requests[r].kind)) @@ sends
    /\ UNCHANGED edits
    /\ UNCHANGED coreVars

\* MassReport with a catch that goes on to the next contact
MassReport_Continues(r, ok) ==
    /\ r \in DOMAIN requests
    /\ requests[r].chain = "report"
    /\ requests' = [requests EXCEPT
                       ![r].contacts = Tail(@),
                       ![r].reported = IF ok THEN @ + 1 ELSE @,
                       ![r].failed = IF ok THEN @ ELSE @ \cup {"report"},
                       ![r].chain = IF Tail(requests[r].contacts) # <<>>
                                    THEN "timer"
                                    ELSE "finished"]
    /\ UNCHANGED <<edits, sends>>
    /\ UNCHANGED coreVars

\* part_000:465-482, 500-517  the POST receive_mm settles.  Done: the contact
\* is shifted off the array and, if contacts remain, a timer of 5 to 10
\* seconds is set for the next call.  Rejected: the catch logs and the chain
\* ends.
MassReport(r, ok) ==
    /\ r \in DOMAIN requests
    /\ requests[r].chain = "report"
    /\ requests' = IF ok
                   THEN [requests EXCEPT
                            ![r].contacts = Tail(@),
                            ![r].reported = @ + 1,
                            ![r].chain = IF Tail(requests[r].contacts) # <<>>
                                         THEN "timer"
                                         ELSE "finished"]
                   ELSE [requests EXCEPT ![r].chain = "stopped",
                                         ![r].failed = @ \cup {"report"}]
    /\ UNCHANGED <<edits, sends>>
    /\ UNCHANGED coreVars

\* part_000:477-479, 512-514  the timer fires: the next call of sendMMType1 /
\* sendMMType2 runs up to its await of getContactVars
MassTimer(r) ==
    /\ r \in DOMAIN requests
    /\ requests[r].chain = "timer"
    /\ requests' = [requests EXCEPT ![r].chain = "getContactVars"]
    /\ UNCHANGED <<edits, sends>>
    /\ UNCHANGED coreVars

\* part_000:24-31  the routes with a :from parameter (the mass sends of one
\* contact here; MassSpec has the others)
Handlers(r, from) ==
    \/ getProfilePic(r, from)
    \/ loadMessages(r, from)
    \/ loadAvatars(r, from)
    \/ loadContacts(r, from)
    \/ loadGroups(r, from)
    \/ validateNumber(r, from)
    \/ \E kind \in SendKinds, readOk \in BOOLEAN : sendMessage(r, from, kind, readOk)
    \/ \E mode \in Modes : sendMassMessages(r, from, <<"c1">>, mode, "text", TRUE, TRUE)

(* --------------------------- specification ---------------------------- *)

\* The messages table is a database table: it outlives the process and is
\* shared with the other writers of the database.  At construction it is empty
\* or holds a row left there earlier, whose message the backend has received
\* and whose status is still to be forwarded (the rows of whatsapp.ts:516).
EmptyTable == [i \in {} |-> 0]

LegacyRow(id) ==
    [ID |-> id, MENSAGEM |-> "hi", ID_REFERENCIA |-> NoValue, STATUS |-> "SENT",
     SYNC_MESSAGE |-> TRUE, SYNC_STATUS |-> FALSE, FROM |-> Contact]

\* the identifier of the row found at construction
LegacyIds == {"M2"}

InitialTables == {EmptyTable} \cup {(id :> LegacyRow(id)) : id \in LegacyIds}

Init ==
    /\ unifiedQueue = <<>>
    /\ processingUnifiedQueue = FALSE
    /\ current = 0
    /\ tasks = [t \in TaskIds |-> NoTask]
    /\ nextTask = 1
    /\ messages \in InitialTables
    /\ detached = [i \in MsgIds |-> 0]
    /\ sweeps = [s \in Sweepers |-> IdleSweep]
    /\ started = <<>>
    /\ fwdAcked = {id \in DOMAIN messages : messages[id].SYNC_MESSAGE}
    /\ statusAcked = {}
    /\ edits = EmptyTable
    /\ sends = EmptyTable
    /\ requests = <<>>

\* the events of the messaging client and the calls of the public enqueue method
Events ==
    \/ \E id \in MsgIds : onReceiveMessage(id)
    \/ \E id \in MsgIds : onReceiveMessageStatus(id)
    \/ enqueueMessageProcessing

\* an awaited call of the running task settles
TaskSteps ==
    \E t \in TaskIds :
        /\ current = t
        /\ \/ \E throws \in BOOLEAN : TaskSettles(t, throws)
           \/ \E shape \in Shapes, ok \in BOOLEAN : MsgGetChat(t, shape, ok)
           \/ \E parsed \in BOOLEAN, ack \in Acks, body \in Bodies :
                 MsgParser(t, parsed, ack, body)
           \/ \E ok \in BOOLEAN : MsgSave(t, ok)
           \/ \E ok \in BOOLEAN : MsgPost(t, ok)
           \/ \E res \in {"row", "none", "error"} : MsgSelect(t, res)
           \/ \E ack \in Acks, ok \in BOOLEAN : StatusPut(t, ack, ok)
           \/ \E ok \in BOOLEAN : StatusUpdate(t, ok)

\* the cron tick of the sweep, or an awaited call of a sweep settles
SweepSteps ==
    \/ \E s \in Sweepers, ok \in BOOLEAN : SweepStart(s, ok)
    \/ \E s \in Sweepers, ok \in BOOLEAN : SweepPost(s, ok)
    \/ \E s \in Sweepers, ok \in BOOLEAN : SweepPostUpdate(s, ok)
    \/ \E s \in Sweepers, ok \in BOOLEAN : SweepPut(s, ok)
    \/ \E s \in Sweepers, ok \in BOOLEAN : SweepPutUpdate(s, ok)

Next ==
    \/ Events
    \/ TaskSteps
    \/ \E id \in MsgIds, ok \in BOOLEAN : DetachedUpdate(id, ok)
    \/ SweepSteps

Spec == Init /\ [][Next]_vars

\* the same program with fewer events
LiveNext ==
    \/ nextTask <= MaxLiveTasks /\ Events
    \/ TaskSteps
    \/ \E id \in MsgIds, ok \in BOOLEAN : DetachedUpdate(id, ok)
    \/ SweepSteps

\* Every call a task awaits settles (there is no cancellation; timeouts are
\* those of the network layer).
QueueFairness == WF_vars(TaskSteps)

\* The sweep of sweeper s stands at the await pc for the row of id and the
\* awaited call succeeds
SweepOk(s, id, pc) ==
    /\ sweeps[s].pc = pc
    /\ Head(sweeps[s].rows).ID = id
    /\ \/ SweepPost(s, TRUE)
       \/ SweepPostUpdate(s, TRUE)
       \/ SweepPut(s, TRUE)
       \/ SweepPutUpdate(s, TRUE)

\* The cron tick recurs (whatsapp.ts:66), the store answers the scan and, for
\* each row, the remote backend and the store do not fail for ever.
SweepFairness ==
    \A s \in Sweepers :
        /\ SF_vars(SweepStart(s, TRUE))
        /\ \A id \in MsgIds, pc \in {"post", "postUpdate", "put", "putUpdate"} :
              SF_vars(SweepOk(s, id, pc))

FairSpec == Init /\ [][LiveNext]_vars /\ QueueFairness

\* the same program with fewer events still
SyncNext ==
    \/ nextTask <= MaxSyncTasks /\ Events
    \/ TaskSteps
    \/ \E id \in MsgIds, ok \in BOOLEAN : DetachedUpdate(id, ok)
    \/ SweepSteps

LiveSpec == Init /\ [][SyncNext]_vars /\ QueueFairness /\ SweepFairness

\* The rows a sweep can find in the table when the process starts: rows left
\* by earlier runs of the program and by the other writers of the database,
\* with any values of the two flags.
FlagRows(id) ==
    { [LegacyRow(id) EXCEPT !.SYNC_MESSAGE = m, !.SYNC_STATUS = st] :
          m \in BOOLEAN, st \in BOOLEAN }

StoredTables ==
    UNION { { tbl \in [ids -> UNION { FlagRows(id) : id \in ids }] :
                  \A id \in ids : tbl[id].ID = id } : ids \in SUBSET MsgIds }

StoreInit ==
    /\ unifiedQueue = <<>>
    /\ processingUnifiedQueue = FALSE
    /\ current = 0
    /\ tasks = [t \in TaskIds |-> NoTask]
    /\ nextTask = 1
    /\ messages \in StoredTables
    /\ detached = [i \in MsgIds |-> 0]
    /\ sweeps = [s \in Sweepers |-> IdleSweep]
    /\ started = <<>>
    /\ fwdAcked = {id \in DOMAIN messages : messages[id].SYNC_MESSAGE}
    /\ statusAcked = {}
    /\ edits = EmptyTable
    /\ sends = EmptyTable
    /\ requests = <<>>

\* the program started on any stored table
SweepSpec == StoreInit /\ [][SyncNext]_vars

(* ------------------- the acknowledgement codes ------------------------ *)

\* whatsapp.ts:243  the values message.ack can take: the codes of the
\* messaging client (-1 to 4) and integers on both sides of them
AckCodes == -2..6

\* status events alone, with any acknowledgement code
MapperNext ==
    \/ nextTask <= MaxSyncTasks /\ \E id \in MsgIds : onReceiveMessageStatus(id)
    \/ \E t \in TaskIds, ack \in AckCodes, ok \in BOOLEAN : StatusPut(t, ack, ok)
    \/ \E t \in TaskIds, ok \in BOOLEAN : StatusUpdate(t, ok)

MapperSpec == Init /\ [][MapperNext]_vars

(* ---------------------- the statements of the store ------------------- *)

\* The inputs of saveMessage and updateMessage taken on their own: the
\* canonical messages a caller can pass (the flags are properties the object
\* of the caller may carry) and the objects of optional fields.
GatewayBodies == {"hi", "yo"}
References == {NoValue, "M0"}

CallerMessages ==
    [ID : MsgIds, MENSAGEM : GatewayBodies, ID_REFERENCIA : References,
     STATUS : {"SENT", "READ"}, SYNC_MESSAGE : BOOLEAN, SYNC_STATUS : BOOLEAN]

UpdateFields ==
    { [STATUS |-> "PLAYED"],
      [SYNC_STATUS |-> TRUE],
      [SYNC_STATUS |-> FALSE],
      [SYNC_MESSAGE |-> FALSE],
      [SYNC_MESSAGE |-> TRUE, SYNC_STATUS |-> TRUE],
      [STATUS |-> "RECEIVED", SYNC_MESSAGE |-> TRUE, SYNC_STATUS |-> FALSE] }

\* whatsapp.ts:424-490  one call of saveMessage (its awaits touch nothing else)
SaveCall(message, ok) ==
    /\ messages' = saveMessage(messages, message, Contact, ok)
    /\ UNCHANGED <<unifiedQueue, processingUnifiedQueue, current, tasks, nextTask,
                   detached, sweeps, started, fwdAcked, statusAcked>>
    /\ UNCHANGED outVars

\* whatsapp.ts:535-555  one call of updateMessage
UpdateCall(id, f, ok) ==
    /\ messages' = updateMessage(messages, id, f, ok)
    /\ UNCHANGED <<unifiedQueue, processingUnifiedQueue, current, tasks, nextTask,
                   detached, sweeps, started, fwdAcked, statusAcked>>
    /\ UNCHANGED outVars

GatewayNext ==
    \/ \E message \in CallerMessages, ok \in BOOLEAN : SaveCall(message, ok)
    \/ \E id \in MsgIds, f \in UpdateFields, ok \in BOOLEAN : UpdateCall(id, f, ok)

GatewaySpec == Init /\ [][GatewayNext]_vars

\* the program with its message_edit events
EditNext ==
    \/ SyncNext
    \/ \E id \in MsgIds : onEditMessage(id)
    \/ \E id \in MsgIds, ok \in BOOLEAN : EditSettles(id, ok)

EditSpec == Init /\ [][EditNext]_vars

\* the program with inbound messages of every shape
FilterNext ==
    \/ SyncNext
    \/ \E t \in TaskIds, shape \in InboundShapes, ok \in BOOLEAN : MsgGetChat(t, shape, ok)

FilterSpec == Init /\ [][FilterNext]_vars

\* the HTTP requests and the sends they start
RouterNext ==
    \/ \E r \in ReqIds, from \in Froms : Handlers(r, from)
    \/ \E r \in ReqIds, ok \in BOOLEAN : OperationSettles(r, ok)
    \/ \E r \in ReqIds, ok \in BOOLEAN : SendGetNumberId(r, ok)
    \/ \E r \in ReqIds, ok \in BOOLEAN : SendFormatAudio(r, ok)
    \/ \E r \in ReqIds, ok \in BOOLEAN : SendMessage(r, ok)
    \/ \E r \in ReqIds, result \in SentIds \cup {NoValue} : SendParser(r, result)

RouterSpec == Init /\ [][RouterNext]_vars

\* number of mass sends in a behaviour of MassSpec
MaxMass == 1

\* the mass sends: the requests, their chains and the sends of the chains
MassNext ==
    \/ \E r \in 1..MaxMass, from \in Froms, list \in ContactLists, mode \in Modes,
          kind \in MassKinds, text \in BOOLEAN, readOk \in BOOLEAN :
          sendMassMessages(r, from, list, mode, kind, text, readOk)
    \/ \E r \in 1..MaxMass, ok \in BOOLEAN : MassContactVars(r, ok)
    \/ \E r \in 1..MaxMass, ok \in BOOLEAN : SendGetNumberId(r, ok)
    \/ \E r \in 1..MaxMass, ok \in BOOLEAN : SendMessage(r, ok)
    \/ \E r \in 1..MaxMass, result \in SentIds \cup {NoValue} : SendParser(r, result)
    \/ \E r \in 1..MaxMass, ok \in BOOLEAN : MassReport(r, ok)
    \/ \E r \in 1..MaxMass : MassTimer(r)

MassSpec == Init /\ [][MassNext]_vars

TypeOK ==
    /\ processingUnifiedQueue \in BOOLEAN
    /\ current \in 0..MaxTasks
    /\ nextTask \in 1..(MaxTasks + 1)
    /\ DOMAIN messages \subseteq MsgIds

(* ------------------------------ claims -------------------------------- *)

Running == {t \in TaskIds : Active(t)}

\* C1: tasks start in the order of their enqueue calls (task numbers are the
\* numbers of the enqueue calls), and at most one task is executing at any
\* time: a task starts only when the one started before it is over.
C1_FifoNoOverlap ==
    /\ \A i \in 1..Len(started) : started[i] = i
    /\ Cardinality(Running) <= 1
    /\ \A t \in Running : t = current /\ t = started[Len(started)]

\* C1 witness: the second task runs after the first is over, the third waits
C1_Witness ==
    /\ started = <<1, 2>>
    /\ tasks[1].pc = "done"
    /\ Active(2)
    /\ unifiedQueue = <<3>>

\* C2: after a task has thrown the worker loop is still there for the tasks
\* in the list: tasks are never left queued with no loop to run them.
C2_LoopSurvivesThrow ==
    (\E t \in TaskIds : tasks[t].pc = "failed")
        => (unifiedQueue = <<>> \/ current # 0)

\* C3: every enqueued task is started in the end unless a task ahead of it
\* threw, and tasks are never in the list while the flag is clear (the test of
\* the list and the clearing of the flag are one step, no enqueue call falls
\* between them).
C3_NoTaskStranded ==
    /\ \A t \in TaskIds :
          (tasks[t].pc # "none")
            ~> (\/ tasks[t].pc \notin {"none", "queued"}
                \/ \E u \in 1..(t - 1) : tasks[u].pc = "failed")
    /\ [](~processingUnifiedQueue => unifiedQueue = <<>>)

\* C3 witness: a task enqueued after the worker had gone idle is running
C3_Witness ==
    /\ tasks[1].pc = "done"
    /\ Active(2)
    /\ Len(started) = 2

\* C4: the enqueue call returns before any step of the task it enqueued has
\* run: right after the call the task is in the list, not started.
C4_NeverInline ==
    [][\A t \in TaskIds :
          (tasks[t].pc = "none" /\ tasks'[t].pc # "none") => tasks'[t].pc = "queued"]_vars

\* C5: a row has SYNC_MESSAGE = true only if a receive_message call for its
\* identifier has completed successfully before.
C5_SyncMessageOnlyAfterAck ==
    \A id \in DOMAIN messages : messages[id].SYNC_MESSAGE => id \in fwdAcked

\* C6: a row has SYNC_STATUS = true only if the remote backend has
\* acknowledged the current STATUS of the row for its identifier.
C6_SyncStatusOnlyAfterAck ==
    \A id \in DOMAIN messages :
        messages[id].SYNC_STATUS => <<id, messages[id].STATUS>> \in statusAcked

\* C7: when a status task for an identifier with a stored row is over, the
\* STATUS of the row is the status mapped from the acknowledgement code of
\* the event.
C7_StatusStored ==
    [][\A t \in TaskIds :
          (Awaiting(t, "update") /\ tasks'[t].pc = "done"
                /\ tasks[t].id \in DOMAIN messages')
            => messages'[tasks[t].id].STATUS = AckToStatus(tasks[t].ack)]_vars

\* C8: when a message task whose receive_message call failed is over, the row
\* is stored and its SYNC_MESSAGE is false (unless a sweep had the message
\* acknowledged meanwhile); and the flag update of a sweep after an
\* acknowledged forward leaves the row with both flags true.
C8_FailedForwardThenSweep ==
    /\ [][\A t \in TaskIds :
             (Awaiting(t, "select") /\ ~tasks[t].postOk /\ tasks'[t].pc = "done")
               => /\ tasks[t].id \in DOMAIN messages'
                  /\ (messages'[tasks[t].id].SYNC_MESSAGE => tasks[t].id \in fwdAcked)]_vars
    /\ [][\A s \in Sweepers :
             SweepPostUpdate(s, TRUE)
               => LET id == Head(sweeps[s].rows).ID IN
                  messages'[id].SYNC_MESSAGE /\ messages'[id].SYNC_STATUS]_vars

\* C9: with the fairness of LiveSpec every stored row gets both flags true
C9_EventuallySynced ==
    \A id \in MsgIds :
        (id \in DOMAIN messages)
          ~> (id \in DOMAIN messages /\ messages[id].SYNC_MESSAGE
                                      /\ messages[id].SYNC_STATUS)

\* C9 witness: the row of a received message and the row found at
\* construction are both settled
C9_Witness ==
    /\ DOMAIN messages = MsgIds
    /\ \A id \in MsgIds : messages[id].SYNC_MESSAGE /\ messages[id].SYNC_STATUS

\* the sweep s leaves the head row of its scan in this step
LeavesRow(s) ==
    /\ sweeps[s].rows # <<>>
    /\ sweeps'[s].rows # sweeps[s].rows

\* C10, both versions: for a row scanned with SYNC_MESSAGE = false exactly one
\* receive_message call and no update_message call has been issued when the
\* sweep leaves the row, and a forward that is not acknowledged leaves the
\* table as it is.
C10_Calls(s) ==
    /\ (LeavesRow(s) /\ ~Head(sweeps[s].rows).SYNC_MESSAGE)
          => (sweeps[s].fwd = 1 /\ sweeps[s].stat = 0)
    /\ SweepPost(s, FALSE) => messages' = messages

\* C10 as stated: after an acknowledged forward both flags are true
C10_Original ==
    [][\A s \in Sweepers :
          /\ C10_Calls(s)
          /\ (SweepPostUpdate(s, TRUE) \/ SweepPostUpdate(s, FALSE))
                => LET id == Head(sweeps[s].rows).ID IN
                   messages'[id].SYNC_MESSAGE /\ messages'[id].SYNC_STATUS]_vars

\* C10 amended: after an acknowledged forward both flags are true if the
\* statement of the flag update is executed; if that statement fails the
\* table is left as it is.
C10_SweepForward ==
    [][\A s \in Sweepers :
          /\ C10_Calls(s)
          /\ SweepPostUpdate(s, TRUE)
                => LET id == Head(sweeps[s].rows).ID IN
                   messages'[id].SYNC_MESSAGE /\ messages'[id].SYNC_STATUS
          /\ SweepPostUpdate(s, FALSE) => messages' = messages]_vars

\* C10 witness: the single forward of a row scanned with SYNC_MESSAGE = false
\* has been acknowledged and its flag update is under way
C10_Witness ==
    \E s \in Sweepers :
        /\ sweeps[s].pc = "postUpdate"
        /\ ~Head(sweeps[s].rows).SYNC_MESSAGE
        /\ sweeps[s].fwd = 1 /\ sweeps[s].stat = 0
        /\ Head(sweeps[s].rows).ID \in fwdAcked

(* ------------------------- claims on the sweep ------------------------ *)

\* C11: for a row scanned with SYNC_MESSAGE = true and SYNC_STATUS = false the
\* sweep issues exactly one update_message call and no receive_message call,
\* the update_message call names the identifier of the row, after an
\* acknowledged call whose flag update is executed SYNC_STATUS is true while
\* SYNC_MESSAGE and STATUS are as before, and a call that is not acknowledged
\* leaves the table as it is.
C11_StatusOnlyCall ==
    [][\A s \in Sweepers :
          /\ (LeavesRow(s) /\ StatusBranch(Head(sweeps[s].rows)))
                => (sweeps[s].stat = 1 /\ sweeps[s].fwd = 0)
          /\ (SweepPut(s, TRUE) \/ SweepPut(s, FALSE))
                => UpdateMessageTarget(Head(sweeps[s].rows)) = Head(sweeps[s].rows).ID
          /\ SweepPutUpdate(s, TRUE)
                => LET id == Head(sweeps[s].rows).ID IN
                   /\ messages'[id].SYNC_STATUS
                   /\ messages'[id].SYNC_MESSAGE = messages[id].SYNC_MESSAGE
                   /\ messages'[id].STATUS = messages[id].STATUS
          /\ SweepPut(s, FALSE) => messages' = messages]_vars

Settled(r) == r.SYNC_MESSAGE /\ r.SYNC_STATUS

ScanIds(rs) == {rs[i].ID : i \in 1..Len(rs)}

\* C12: a scan returns no row that is settled in the table it reads, so a
\* sweep of a table whose rows are all settled stays idle; every row a sweep
\* issues a call for was not settled in its scan, and a step of a sweep
\* writes no row and records no acknowledgement but those of the row it is at.
C12_SettledRowsUntouched ==
    [][\A s \in Sweepers :
          /\ SweepStart(s, TRUE)
                => /\ \A id \in DOMAIN messages :
                         Settled(messages[id]) => id \notin ScanIds(sweeps'[s].rows)
                   /\ (\A id \in DOMAIN messages : Settled(messages[id]))
                         => sweeps'[s] = IdleSweep
          /\ sweeps'[s].pc # "idle"
                => \A i \in 1..Len(sweeps'[s].rows) : ~Settled(sweeps'[s].rows[i])
          /\ (sweeps[s].pc # "idle" /\ sweeps'[s] # sweeps[s])
                => LET id == Head(sweeps[s].rows).ID IN
                   /\ \A i \in DOMAIN messages : messages'[i] # messages[i] => i = id
                   /\ fwdAcked' \subseteq fwdAcked \cup {id}
                   /\ \A a \in statusAcked' \ statusAcked : a[1] = id]_vars

\* C12 witness: a sweep stands at the first row of a scan of the table as it
\* is, a table that holds a settled row as well
C12_Witness ==
    \E s \in Sweepers :
        /\ sweeps[s].pc \in {"post", "put"}
        /\ sweeps[s].rows = SelectUnsynced(messages)
        /\ \E id \in DOMAIN messages : Settled(messages[id])

\* C13: a sweep leaves a row for the next row of its scan whatever the calls
\* of the row came to: it issues the call of the next row, and it ends only
\* after the last row.
C13_SweepContinues ==
    [][\A s \in Sweepers :
          LeavesRow(s)
            => /\ sweeps'[s].rows = Tail(sweeps[s].rows)
               /\ IF Tail(sweeps[s].rows) = <<>>
                  THEN sweeps'[s] = IdleSweep
                  ELSE sweeps'[s].pc \in {"post", "put"}]_vars

\* C13 witness: no event has come; the row of M1, never forwarded with
\* success and unsettled since the start, was in the scan ahead of the row
\* of M2, and the sweep is at the call of the row of M2
C13_Witness ==
    /\ nextTask = 1
    /\ "M1" \in DOMAIN messages
    /\ ~messages["M1"].SYNC_MESSAGE
    /\ "M1" \notin fwdAcked
    /\ \E s \in Sweepers :
          /\ sweeps[s].pc \in {"post", "put"}
          /\ Head(sweeps[s].rows).ID = "M2"

(* ------------------------- claims on the store ------------------------ *)

\* C14: a saveMessage call whose statement is executed leaves the row of the
\* identifier of its message, holding the body of that message, whether or
\* not the identifier had a row (so after two calls for one identifier the
\* one row holds the second body); it adds no other row and changes none.
C14_UpsertKeyed ==
    [][\A message \in CallerMessages :
          SaveCall(message, TRUE)
            => /\ DOMAIN messages' = DOMAIN messages \cup {message.ID}
               /\ messages'[message.ID].ID = message.ID
               /\ messages'[message.ID].MENSAGEM = message.MENSAGEM
               /\ \A id \in DOMAIN messages \ {message.ID} :
                     messages'[id] = messages[id]]_vars

\* C14 witness: the row M2 found at the start (the only identifier in
\* fwdAcked then) holds the other body after a saveMessage call for M2
C14_Witness ==
    /\ "M2" \in fwdAcked
    /\ DOMAIN messages = {"M2"}
    /\ messages["M2"].MENSAGEM = "yo"

\* C15: after a saveMessage call for an identifier that has a row, the
\* statement being executed, the body, the reference to the quoted message
\* and the status of the row are those of the message and the identifier of
\* the row is the same.
C15_UpsertOverwrites ==
    [][\A message \in CallerMessages :
          (message.ID \in DOMAIN messages /\ SaveCall(message, TRUE))
            => /\ messages'[message.ID].ID = messages[message.ID].ID
               /\ messages'[message.ID].MENSAGEM = message.MENSAGEM
               /\ messages'[message.ID].ID_REFERENCIA = message.ID_REFERENCIA
               /\ messages'[message.ID].STATUS = message.STATUS]_vars

\* C16: the row a saveMessage call inserts for an identifier that had none
\* has both flags false, whatever flags the message carries.
C16_InsertStartsUnsynced ==
    [][\A message \in CallerMessages :
          (message.ID \notin DOMAIN messages /\ SaveCall(message, TRUE))
            => /\ ~messages'[message.ID].SYNC_MESSAGE
               /\ ~messages'[message.ID].SYNC_STATUS]_vars

\* C16 witness: the row of M1, which no table has at the start, is there
\* with both flags false
C16_Witness ==
    /\ "M1" \in DOMAIN messages
    /\ ~messages["M1"].SYNC_MESSAGE
    /\ ~messages["M1"].SYNC_STATUS
    /\ messages["M1"].ID_REFERENCIA = "M0"

\* C17: an updateMessage call whose statement is executed gives each of
\* STATUS, SYNC_STATUS and SYNC_MESSAGE the value passed for it (false
\* included) and leaves it as stored when it is omitted; the other columns of
\* the row and the other rows are as before and no row is added.
C17_PartialUpdate ==
    [][\A id \in MsgIds, f \in UpdateFields :
          UpdateCall(id, f, TRUE)
            => /\ DOMAIN messages' = DOMAIN messages
               /\ \A i \in DOMAIN messages \ {id} : messages'[i] = messages[i]
               /\ id \in DOMAIN messages
                    => /\ messages'[id].STATUS =
                             IF "STATUS" \in DOMAIN f THEN f.STATUS
                             ELSE messages[id].STATUS
                       /\ messages'[id].SYNC_STATUS =
                             IF "SYNC_STATUS" \in DOMAIN f THEN f.SYNC_STATUS
                             ELSE messages[id].SYNC_STATUS
                       /\ messages'[id].SYNC_MESSAGE =
                             IF "SYNC_MESSAGE" \in DOMAIN f THEN f.SYNC_MESSAGE
                             ELSE messages[id].SYNC_MESSAGE
                       /\ messages'[id].ID = messages[id].ID
                       /\ messages'[id].MENSAGEM = messages[id].MENSAGEM
                       /\ messages'[id].ID_REFERENCIA = messages[id].ID_REFERENCIA
                       /\ messages'[id].FROM = messages[id].FROM]_vars

\* C17 witness: a row got its status from a call that passed the status
\* alone (no saveMessage call passes PLAYED) and has the flags of the start
C17_Witness ==
    /\ "M2" \in DOMAIN messages
    /\ messages["M2"].STATUS = "PLAYED"
    /\ messages["M2"].SYNC_MESSAGE
    /\ ~messages["M2"].SYNC_STATUS

(* ----------------------- claims on the queued tasks ------------------- *)

\* C18: a step of a status task whose identifier has no row leaves the table
\* as it is (no row is made), does not make the task throw, and the step
\* after updateMessage ends the task normally.
C18_UnknownIdNoOp ==
    [][\A t \in TaskIds :
          (/\ tasks[t].kind = "status"
           /\ Active(t)
           /\ tasks'[t] # tasks[t]
           /\ tasks[t].id \notin DOMAIN messages)
            => /\ messages' = messages
               /\ tasks'[t].pc # "failed"
               /\ Awaiting(t, "update") => tasks'[t].pc = "done"]_vars

\* C18 witness: the one event so far was a status event; its update_message
\* call was acknowledged, its task is over and the table is empty
C18_Witness ==
    /\ nextTask = 2
    /\ tasks[1].pc = "done"
    /\ statusAcked # {}
    /\ fwdAcked = {}
    /\ DOMAIN messages = {}

\* the explicit table of the status mapping
StatusTable(ack) ==
    CASE ack = 0 -> "PENDING"
      [] ack = 1 -> "SENT"
      [] ack = 2 -> "RECEIVED"
      [] ack = 3 -> "READ"
      [] ack = 4 -> "PLAYED"
      [] OTHER   -> "ERROR"

\* C19: the status a status task sends for the acknowledgement code of its
\* event is the one of the table, ERROR for every code outside 0..4.
C19_AckMappingTotal ==
    [][\A t \in TaskIds, ack \in AckCodes :
          StatusPut(t, ack, TRUE)
            => statusAcked' = statusAcked \cup {<<tasks[t].id, StatusTable(ack)>>}]_vars

\* C19 witness: ERROR was sent for a negative code
C19_Witness ==
    \E t \in TaskIds :
        /\ Awaiting(t, "update")
        /\ tasks[t].ack < 0
        /\ <<tasks[t].id, "ERROR">> \in statusAcked

\* C20: a message task or a status task never ends by throwing, whatever
\* its remote call came to; the step that ends it starts the next task of the
\* list, or clears the flag when the list is empty.
C20_RemoteFailureContained ==
    [][\A t \in TaskIds :
          (tasks[t].kind \in {"message", "status"} /\ Active(t) /\ tasks'[t] # tasks[t])
            => /\ tasks'[t].pc # "failed"
               /\ tasks'[t].pc = "done"
                    => IF unifiedQueue # <<>>
                       THEN /\ current' = Head(unifiedQueue)
                            /\ tasks'[current'].pc \notin {"none", "queued", "done", "failed"}
                            /\ processingUnifiedQueue'
                       ELSE ~processingUnifiedQueue' /\ current' = 0]_vars

\* C20 witness: no receive_message call has succeeded, yet the first task
\* stored a row and is over, and the second task has been started
C20_Witness ==
    /\ tasks[1].pc = "done"
    /\ Awaiting(2, "getChat")
    /\ DOMAIN messages # {}
    /\ fwdAcked = {}

(* ------------------- claims on failures and sequencing ---------------- *)

\* C21: when the statement of saveMessage fails the message task ends there:
\* the step after saveMessage ends the task instead of issuing the
\* receive_message call.
C21_WriteFailureAbandons ==
    [][\A t \in TaskIds : MsgSave(t, FALSE) => tasks'[t].pc = "done"]_vars

\* C22: when the parser yields no message the task ends in that step, which
\* writes no row and records no forward, and the step starts the next task of
\* the list or clears the flag.
C22_UnparsedAborts ==
    [][\A t \in TaskIds, ack \in Acks, body \in Bodies :
          MsgParser(t, FALSE, ack, body)
            => /\ tasks'[t].pc = "done"
               /\ messages' = messages
               /\ fwdAcked' = fwdAcked
               /\ IF unifiedQueue # <<>>
                  THEN current' = Head(unifiedQueue) /\ processingUnifiedQueue'
                  ELSE current' = 0 /\ ~processingUnifiedQueue']_vars

\* C22 witness: the first task is over with nothing stored and nothing
\* forwarded, and the task queued behind it stands at its own parser call
C22_Witness ==
    /\ tasks[1].pc = "done"
    /\ Awaiting(2, "parser")
    /\ DOMAIN messages = {}
    /\ fwdAcked = {}
    /\ statusAcked = {}

\* C25: while a task is executing no store write issued by an earlier task
\* is still to be applied.
C25_WritesDoneBeforeNext ==
    \A id \in MsgIds : detached[id] > 0 => \A t \in TaskIds : ~Active(t)

\* C27: the list is empty whenever the flag is false, and the flag is cleared
\* only by the step that ends a task and finds the list empty.
C27_IdleFlag ==
    /\ [](unifiedQueue # <<>> => processingUnifiedQueue)
    /\ [][(processingUnifiedQueue /\ ~processingUnifiedQueue')
            => /\ unifiedQueue = <<>>
               /\ unifiedQueue' = <<>>
               /\ \E t \in TaskIds : Active(t) /\ tasks'[t].pc = "done"]_vars

\* C27 witness: a task waits in the list while the worker awaits another
C27_Witness ==
    /\ unifiedQueue = <<2>>
    /\ Active(1)
    /\ current = 1
    /\ processingUnifiedQueue

\* C28: a flag of a row that is true stays true.
C28_FlagsMonotonic ==
    [][\A id \in DOMAIN messages :
          /\ messages[id].SYNC_MESSAGE => messages'[id].SYNC_MESSAGE
          /\ messages[id].SYNC_STATUS => messages'[id].SYNC_STATUS]_vars

\* C29: for an identifier with no row at construction and one inbound event,
\* a receive_message call is acknowledged only if none was acknowledged for
\* the identifier before.
C29_AtMostOneForward ==
    [][\A id \in MsgIds \ LegacyIds :
          (\/ \E t \in TaskIds : tasks[t].id = id /\ MsgPost(t, TRUE)
           \/ \E s \in Sweepers : /\ sweeps[s].pc = "post"
                                  /\ Head(sweeps[s].rows).ID = id
                                  /\ SweepPost(s, TRUE))
            => id \notin fwdAcked]_vars

\* the claim's own list of the messages that are not to be stored
Excluded(m) ==
    \/ m.isGroup
    \/ m.isStatus
    \/ m.type \in {"e2e_notification", "notification_template", "call_log", "gp2"}
    \/ m.blockedContact
    \/ ~m.fromNow

\* C30: the task of an excluded inbound message ends at the filter: the
\* step writes no row and records no forward, and the task issues no call
\* after it.
C30_ExcludedNeverStored ==
    [][\A t \in TaskIds, shape \in InboundShapes :
          (Excluded(shape) /\ MsgGetChat(t, shape, TRUE))
            => /\ tasks'[t].pc = "done"
               /\ messages' = messages
               /\ fwdAcked' = fwdAcked]_vars

\* C30 witness: the one event so far was an inbound message; its task is over
\* and nothing is stored, forwarded or left to write
C30_Witness ==
    /\ nextTask = 2
    /\ started = <<1>>
    /\ tasks[1].pc = "done"
    /\ ~processingUnifiedQueue
    /\ DOMAIN messages = {}
    /\ fwdAcked = {}
    /\ statusAcked = {}
    /\ \A id \in MsgIds : detached[id] = 0

(* ----------------------- claims on the boundary ----------------------- *)

\* C23: once sendText or sendFile has returned a canonical message, the table
\* holds a row with the identifier of that message.
C23_SentMessageStored ==
    \A r \in DOMAIN sends :
        (sends[r].pc = "returned" /\ sends[r].result # NoValue)
            => sends[r].result \in DOMAIN messages

\* C24: a request of a route with a :from parameter that names no instance
\* is answered 404 in the step of its handler, which invokes no operation of
\* an instance and starts no send; the answer stands and nothing is invoked
\* for the request later.
C24_UnknownInstance404 ==
    /\ [][\A r \in ReqIds, from \in Froms :
             (InstancesFind(from) = NoValue /\ Handlers(r, from))
                => /\ requests'[r].pc = "responded"
                   /\ requests'[r].status = 404
                   /\ ~requests'[r].invoked
                   /\ sends' = sends
                   /\ UNCHANGED coreVars]_vars
    /\ [](\A r \in DOMAIN requests :
             InstancesFind(requests[r].from) = NoValue
                => /\ requests[r].pc = "responded"
                   /\ requests[r].status = 404
                   /\ ~requests[r].invoked
                   /\ r \notin DOMAIN sends)

\* C24 witness: a send request and a mass send request for an unknown
\* instance have both been answered 404
C24_Witness ==
    /\ requests = << Request("messages", "wa9", "responded", 404, FALSE),
                     Request("mass-messages", "wa9", "responded", 404, FALSE) >>
    /\ DOMAIN sends = {}

\* C26: the POST of an edit event starts only when no task of the queue is
\* executing or queued.
C26_EditWaitsForQueue ==
    [][\A id \in MsgIds :
          (id \notin DOMAIN edits /\ id \in DOMAIN edits')
            => (current = 0 /\ unifiedQueue = <<>>)]_vars

(* ------------------------ claims on the mass send --------------------- *)

\* C31 as stated: a send of a mass send starts for the next contact of the
\* list, after the send before it has returned and has been reported; and
\* once the lookup, the send or the report has failed for a contact, no send
\* starts for a later contact.
C31_Original ==
    [][\A r \in DOMAIN requests :
          requests'[r].tried # requests[r].tried
            => /\ requests'[r].tried
                    = Append(requests[r].tried,
                             requests[r].list[Len(requests[r].tried) + 1])
               /\ requests[r].reported = Len(requests[r].tried)
               /\ r \in DOMAIN sends => sends[r].pc = "returned"
               /\ requests[r].failed = {}]_vars

\* C31 amended: a send of a mass send starts for the next contact of the
\* list, after the send before it has returned and has been reported; a
\* lookup or a report that fails ends the chain, and an ended chain starts no
\* send.  (A send that fails returns nothing and the chain goes on.)
C31_MassSendInOrder ==
    [][\A r \in DOMAIN requests :
          /\ requests'[r].tried # requests[r].tried
               => /\ requests'[r].tried
                       = Append(requests[r].tried,
                                requests[r].list[Len(requests[r].tried) + 1])
                  /\ requests[r].reported = Len(requests[r].tried)
                  /\ r \in DOMAIN sends => sends[r].pc = "returned"
                  /\ requests[r].failed \cap {"lookup", "report"} = {}
          /\ (MassContactVars(r, FALSE) \/ MassReport(r, FALSE))
               => requests'[r].chain = "stopped"
          /\ requests[r].chain = "stopped"
               => /\ requests'[r] = requests[r]
                  /\ r \in DOMAIN sends' <=> r \in DOMAIN sends
                  /\ r \in DOMAIN sends => sends'[r] = sends[r]]_vars

\* C31 witness: of three contacts the first was messaged and reported, the
\* report of the second failed, and the chain has ended before the third
C31_Witness ==
    /\ Len(requests) = 1
    /\ requests[1].list = <<"c1", "c2", "c3">>
    /\ requests[1].tried = <<"c1", "c2">>
    /\ requests[1].reported = 1
    /\ requests[1].failed = {"report"}
    /\ requests[1].chain = "stopped"

====
